---------------------------- MODULE Spec2Model ----------------------------
(***************************************************************************)
(* A model of src/main.py, the .li domain availability scanner.            *)
(*                                                                         *)
(* Strings of the program are sequences of one-character strings, so that  *)
(* length, membership, strip, lower and the regular expression of the      *)
(* program are computed character by character.  The alphabets are cut     *)
(* down to two letters and two digits.                                     *)
(***************************************************************************)
EXTENDS Integers, Sequences, FiniteSets, TLC

(***************************************************************************)
(* Bounds of the model.                                                    *)
(***************************************************************************)
MaxLen == 2          \* label lengths 0..MaxLen are drawn
MaxRepeats == 3      \* --min-repeats values 1..MaxRepeats are drawn
MaxRetries == 2      \* --max-retries values 0..MaxRetries are drawn
MaxDelay == 1        \* --delay values 0..MaxDelay (seconds) are drawn
MaxReads == 3        \* recv calls of one attempt that return data
MaxLabel == 3        \* a label given to is_valid_domain_base has 0..MaxLabel characters
MaxPatternLen == 4   \* generate_repeating_patterns is called with lengths -1..MaxPatternLen
MaxLines == 3        \* a file given to generate_from_file has 0..MaxLines lines

(***************************************************************************)
(* Constants of the program (main.py:24-26, 83, 89).                       *)
(***************************************************************************)
MAX_RETRIES == 2
RECV_SIZE == 4096
RESPONSE_CAP == 8192

(***************************************************************************)
(* Characters and alphabets (main.py:29-31), cut down.                     *)
(***************************************************************************)
LETTERS == <<"a", "b">>
DIGITS == <<"0", "1">>
ALNUM == LETTERS \o DIGITS

\* The character class [a-zA-Z0-9] of the repeat pattern, over the model's characters.
AlnumClass == {"a", "b", "A", "B", "0", "1"}

\* The characters str.strip() removes.
Whitespace == {" ", "\n", "\t", "\r"}

Range(s) == {s[i] : i \in 1..Len(s)}

RECURSIVE Pow(_, _)
Pow(n, k) == IF k <= 0 THEN 1 ELSE n * Pow(n, k - 1)

(***************************************************************************)
(* get_charset (main.py:186-196).  An unknown selector raises ValueError,  *)
(* modelled as the value "ValueError".                                     *)
(***************************************************************************)
get_charset(chars_arg) ==
    CASE chars_arg = "letters" -> LETTERS
      [] chars_arg = "digits" -> DIGITS
      [] chars_arg = "alnum" -> ALNUM
      [] chars_arg = "letters-hyphen" -> LETTERS \o <<"-">>
      [] chars_arg = "digits-hyphen" -> DIGITS \o <<"-">>
      [] chars_arg = "alnum-hyphen" -> ALNUM \o <<"-">>
      [] OTHER -> "ValueError"

CharsArgs ==
    {"letters", "digits", "alnum", "letters-hyphen", "digits-hyphen", "alnum-hyphen"}

(***************************************************************************)
(* is_valid_domain_base (main.py:198-212).                                 *)
(***************************************************************************)
\* A variant of is_valid_domain_base without the rule on the first and last
\* characters.
is_valid_domain_base_NoEdgeRule(domain_base, allow_hyphen) ==
    IF domain_base = <<>> THEN FALSE
    ELSE IF "." \in Range(domain_base) THEN FALSE
    ELSE IF ~allow_hyphen /\ "-" \in Range(domain_base) THEN FALSE
    ELSE TRUE

is_valid_domain_base(domain_base, allow_hyphen) ==
    IF domain_base = <<>> THEN FALSE
    ELSE IF "." \in Range(domain_base) THEN FALSE
    ELSE IF allow_hyphen /\ "-" \in Range(domain_base)
         THEN IF domain_base[1] = "-" \/ domain_base[Len(domain_base)] = "-"
              THEN FALSE
              ELSE TRUE
    ELSE IF ~allow_hyphen /\ "-" \in Range(domain_base) THEN FALSE
    ELSE TRUE

(***************************************************************************)
(* contains_only_allowed_chars (main.py:214-218).                          *)
(***************************************************************************)
\* A variant of contains_only_allowed_chars that allows every character.
contains_only_allowed_chars_Any(text, allowed_chars) == TRUE

contains_only_allowed_chars(text, allowed_chars) ==
    \A i \in 1..Len(text) : text[i] \in Range(allowed_chars)

(***************************************************************************)
(* The compiled pattern of get_repeat_pattern (main.py:220-225),           *)
(* ([a-zA-Z0-9])\1{n-1,}, and its search: some position holds a character  *)
(* of the class followed by at least n-1 copies of itself.  For n-1 < 0    *)
(* the pattern does not compile; the callers guard n >= 2.                 *)
(***************************************************************************)
\* A variant of pattern_search whose group matches any character.
pattern_search_AnyChar(text, min_repeat_count) ==
    \E i \in 1..Len(text) :
        /\ i + (min_repeat_count - 1) <= Len(text)
        /\ \A j \in 1..(min_repeat_count - 1) : text[i + j] = text[i]

pattern_search(text, min_repeat_count) ==
    \E i \in 1..Len(text) :
        /\ text[i] \in AlnumClass
        /\ i + (min_repeat_count - 1) <= Len(text)
        /\ \A j \in 1..(min_repeat_count - 1) : text[i + j] = text[i]

(***************************************************************************)
(* has_min_repeats (main.py:227-234).                                      *)
(***************************************************************************)
has_min_repeats(text, min_repeat_count) ==
    IF min_repeat_count < 2 THEN TRUE
    ELSE pattern_search(text, min_repeat_count)

(***************************************************************************)
(* itertools.product(charset, repeat=length): its i-th tuple, i from 0,    *)
(* the last position varying fastest (main.py:241, main.py:275).           *)
(***************************************************************************)
ProductItem(i, length, charset) ==
    [k \in 1..length |->
        charset[((i \div Pow(Len(charset), length - k)) % Len(charset)) + 1]]

ProductSize(length, charset) == Pow(Len(charset), length)

(***************************************************************************)
(* line.strip().lower() (main.py:253).                                     *)
(***************************************************************************)
LowerChar(c) ==
    CASE c = "A" -> "a"
      [] c = "B" -> "b"
      [] OTHER -> c

lower(s) == [i \in 1..Len(s) |-> LowerChar(s[i])]

RECURSIVE lstrip(_)
lstrip(s) ==
    IF s = <<>> THEN s
    ELSE IF s[1] \in Whitespace THEN lstrip(Tail(s))
    ELSE s

RECURSIVE rstrip(_)
rstrip(s) ==
    IF s = <<>> THEN s
    ELSE IF s[Len(s)] \in Whitespace THEN rstrip(SubSeq(s, 1, Len(s) - 1))
    ELSE s

strip(s) == rstrip(lstrip(s))


(***************************************************************************)
(* Word-list files.  A file is given (a non-empty path) or not; a given    *)
(* file is readable ("ok"), missing (open raises FileNotFoundError) or     *)
(* fails with another error after okLines lines have been read.            *)
(***************************************************************************)
NoFile == [given |-> FALSE, kind |-> "missing", lines |-> <<>>, okLines |-> 0]

WordsFile ==
    [given |-> TRUE, kind |-> "ok", okLines |-> 0,
     lines |-> << <<"a", "b">>, <<"A", "b">>, <<" ", "a", "b", " ">>, <<"a">>,
                  <<"-", "a">>, <<"a", "-", "b">>, <<>>, <<"0", "0">>,
                  <<"a", ".">> >>]

MissingFile == [given |-> TRUE, kind |-> "missing", lines |-> <<>>, okLines |-> 0]

BrokenFile ==
    [given |-> TRUE, kind |-> "ioerror", okLines |-> 1,
     lines |-> << <<"b", "a">>, <<"a", "a">> >>]

PinyinFile ==
    [given |-> TRUE, kind |-> "ok", okLines |-> 0,
     lines |-> << <<"b", "a">>, <<"a", "b">>, <<"B", "A">>, <<"1">>, <<"b">>,
                  <<"a", "a", "a">>, <<"b", "-">> >>]

DictFiles == {WordsFile, MissingFile, BrokenFile, NoFile}
PinyinFiles == {PinyinFile, MissingFile, NoFile}

\* The values of --methods drawn: every set of methods, some in another order.
MethodLists ==
    { <<>>, <<"all">>, <<"dict">>, <<"repeats">>, <<"pinyin">>,
      <<"all", "dict">>, <<"all", "repeats">>, <<"all", "pinyin">>,
      <<"dict", "repeats">>, <<"dict", "pinyin">>, <<"repeats", "pinyin">>,
      <<"all", "dict", "repeats">>, <<"all", "dict", "pinyin">>,
      <<"all", "repeats", "pinyin">>, <<"dict", "repeats", "pinyin">>,
      <<"all", "dict", "repeats", "pinyin">>,
      <<"repeats", "all">>, <<"pinyin", "dict">>,
      <<"repeats", "pinyin", "dict", "all">> }

(***************************************************************************)
(* The three generators, as lazy sources: how many items the underlying    *)
(* iteration has, its item at a position (from 0), and whether the         *)
(* generator yields it.                                                    *)
(*   generate_all_combinations   (main.py:238-242)                         *)
(*   generate_from_file          (main.py:244-263)                         *)
(*   generate_repeating_patterns (main.py:265-279)                         *)
(***************************************************************************)
AllSource(length, charset) ==
    [kind |-> "all", length |-> length, charset |-> charset,
     min_repeats |-> 0, file |-> NoFile]

FileSource(file, length, charset) ==
    [kind |-> "file", length |-> length, charset |-> charset,
     min_repeats |-> 0, file |-> file]

RepeatsSource(length, charset, min_repeats) ==
    [kind |-> "repeats", length |-> length, charset |-> charset,
     min_repeats |-> min_repeats, file |-> NoFile]

\* A variant of FileReadable in which a failing read ends nothing.
FileReadable_ReadsOn(file) == Len(file.lines)

\* Lines the loop of generate_from_file reads before it ends: none when open
\* raises, okLines when a read raises (both caught, main.py:260-263).
FileReadable(file) ==
    CASE file.kind = "ok" -> Len(file.lines)
      [] file.kind = "ioerror" -> file.okLines
      [] OTHER -> 0

SourceSize(src) ==
    CASE src.kind = "all" ->
            IF src.length <= 0 THEN 0 ELSE ProductSize(src.length, src.charset)
      [] src.kind = "repeats" ->
            IF src.length <= 0 \/ src.min_repeats < 2 THEN 0
            ELSE ProductSize(src.length, src.charset)
      [] OTHER -> FileReadable(src.file)

SourceItem(src, i) ==
    IF src.kind = "file" THEN lower(strip(src.file.lines[i + 1]))
    ELSE ProductItem(i, src.length, src.charset)

SourceYields(src, item, seen) ==
    CASE src.kind = "all" -> TRUE
      [] src.kind = "repeats" -> pattern_search(item, src.min_repeats)
      [] OTHER -> /\ Len(item) = src.length
                  /\ item \notin seen
                  /\ contains_only_allowed_chars(item, src.charset)

(***************************************************************************)
(* generate_domains, steps 1-3 (main.py:306-344): the list of generators.  *)
(***************************************************************************)
InList(m, methods) == \E i \in 1..Len(methods) : methods[i] = m

\* The generator one method stands for.
GeneratorOf(c, m) ==
    CASE m = "all" -> AllSource(c.length, get_charset(c.chars_arg))
      [] m = "dict" -> FileSource(c.dict_file, c.length, get_charset(c.chars_arg))
      [] m = "pinyin" ->
            FileSource(c.pinyin_dict_file, c.length, get_charset(c.chars_arg))
      [] OTHER -> RepeatsSource(c.length, get_charset(c.chars_arg), c.min_repeats)

\* A variant of BuildGenerators that follows the order of --methods.
BuildGenerators_ListOrder(c) ==
    LET Usable(m) == /\ m = "dict" => c.dict_file.given
                     /\ m = "pinyin" => c.pinyin_dict_file.given
                     /\ m = "repeats" => c.min_repeats >= 2
        ms == SelectSeq(c.methods, Usable)
    IN  [i \in 1..Len(ms) |-> GeneratorOf(c, ms[i])]

BuildGenerators(c) ==
    LET actual_charset == get_charset(c.chars_arg)
        g1 == IF InList("all", c.methods)
              THEN <<AllSource(c.length, actual_charset)>> ELSE <<>>
        g2 == IF InList("dict", c.methods) /\ c.dict_file.given
              THEN <<FileSource(c.dict_file, c.length, actual_charset)>> ELSE <<>>
        g3 == IF InList("pinyin", c.methods) /\ c.pinyin_dict_file.given
              THEN <<FileSource(c.pinyin_dict_file, c.length, actual_charset)>>
              ELSE <<>>
        g4 == IF InList("repeats", c.methods) /\ c.min_repeats >= 2
              THEN <<RepeatsSource(c.length, actual_charset, c.min_repeats)>>
              ELSE <<>>
    IN  g1 \o g2 \o g3 \o g4

AllowHyphen(c) == "-" \in Range(get_charset(c.chars_arg))

(***************************************************************************)
(* The dictionary check_li_domain returns (main.py:60-66), without its     *)
(* display text: raw_code is {} for None and {n} for the integer n.        *)
(***************************************************************************)
NoResult == [status |-> "unknown_error", raw_code |-> {}, raw_response |-> <<>>]

(***************************************************************************)
(* Parsing of the response (main.py:97-144).                               *)
(***************************************************************************)
\* s.split(c, 1)[0]: the part of s before the first c, all of s without one.
SplitFirst(s, c) ==
    IF c \in Range(s)
    THEN SubSeq(s, 1, (CHOOSE i \in 1..Len(s) :
                          s[i] = c /\ \A j \in 1..(i - 1) : s[j] # c) - 1)
    ELSE s

DigitChars == {"0", "1", "2", "3", "4", "5", "6", "7", "8", "9"}

DigitVal(c) ==
    CASE c = "0" -> 0 [] c = "1" -> 1 [] c = "2" -> 2 [] c = "3" -> 3
      [] c = "4" -> 4 [] c = "5" -> 5 [] c = "6" -> 6 [] c = "7" -> 7
      [] c = "8" -> 8 [] c = "9" -> 9

RECURSIVE DigitsValue(_)
DigitsValue(s) ==
    IF s = <<>> THEN 0
    ELSE DigitsValue(SubSeq(s, 1, Len(s) - 1)) * 10 + DigitVal(s[Len(s)])

\* int(code_str): an optional sign and at least one decimal digit, surrounding
\* whitespace ignored; anything else raises ValueError (ok = FALSE).
int_parse(code_str) ==
    LET t == strip(code_str)
        signed == t # <<>> /\ t[1] \in {"+", "-"}
        digits == IF signed THEN Tail(t) ELSE t
    IN  IF digits # <<>> /\ Range(digits) \subseteq DigitChars
        THEN [ok |-> TRUE,
              value |-> IF signed /\ t[1] = "-" THEN 0 - DigitsValue(digits)
                        ELSE DigitsValue(digits)]
        ELSE [ok |-> FALSE, value |-> 0]

\* A variant of StatusOfCode with the statuses of -95 and -99 exchanged.
StatusOfCode_Swapped(code) ==
    CASE code = 1 -> "available"
      [] code = 0 -> "unavailable"
      [] code = -1 -> "invalid_query"
      [] code = -95 -> "server_error"
      [] code = -99 -> "rate_limited"
      [] OTHER -> "unknown_error"

\* The status of a status code (main.py:121-139).
StatusOfCode(code) ==
    CASE code = 1 -> "available"
      [] code = 0 -> "unavailable"
      [] code = -1 -> "invalid_query"
      [] code = -95 -> "rate_limited"
      [] code = -99 -> "server_error"
      [] OTHER -> "unknown_error"

\* The result for the decoded response (main.py:97-144).  The diagnostic text
\* the program appends to raw_response is left out.
Classify(decoded) ==
    LET response_text == strip(decoded)
        first_line == strip(SplitFirst(response_text, "\n"))
        code_str == strip(SplitFirst(first_line, ":"))
        parsed == int_parse(code_str)
    IN  IF response_text = <<>>
        THEN [status |-> "network_error", raw_code |-> {}, raw_response |-> <<>>]
        ELSE IF ":" \notin Range(first_line)
        THEN [status |-> "unknown_error", raw_code |-> {},
              raw_response |-> response_text]
        ELSE IF parsed.ok
        THEN [status |-> StatusOfCode(parsed.value), raw_code |-> {parsed.value},
              raw_response |-> response_text]
        ELSE [status |-> "unknown_error", raw_code |-> {},
              raw_response |-> response_text]

\* The decoded responses the server is drawn to send.
Responses ==
    { <<>>, <<" ">>, <<"\n", "\n">>,
      <<"1", ":">>, <<"0", ":">>, <<"-", "1", ":">>, <<"-", "9", "5", ":">>,
      <<"-", "9", "9", ":">>, <<"7", ":">>, <<"-", "9", ":">>, <<"1", "0", ":">>,
      <<"+", "1", ":">>,
      <<" ", "1", " ", ":", "x", "\n", "0", ":">>,
      <<"\n", "0", ":", "\n", "\n">>,
      <<"x", ":">>, <<":">>, <<"1">>, <<"o", "k", "\n", "1", ":">> }

\* The decoded text of n received bytes has at most n characters.
ResponsesOf(n) == {r \in Responses : Len(r) <= n}

\* Sizes of the chunk one sock.recv(4096) returns (main.py:83).
ChunkSizes == {1, RECV_SIZE}

(***************************************************************************)
(* State.                                                                  *)
(***************************************************************************)
VARIABLES
    call,                  \* a function of the program called on its own, with its
                           \* arguments and what it returned; no call during a scan
    cfg,                   \* args read by generate_domains: length, chars, methods,
                           \* min_repeats, dict_file, pinyin_dict_file
    opts,                  \* the other args: max_retries (MAX_RETRIES), delay,
                           \* output, live_log
    mpc,                   \* where main is: pull (in next() of the for statement),
                           \* body, query, process, penalty, delay, finally, done
    endcause,              \* why main's loop ended ("none" while it runs)
    domain_base,           \* the loop variable of main's for statement
    gpc,                   \* the generator generate_domains: unstarted, running,
                           \* suspended (at its yield), finished
    generators_to_run,     \* generate_domains: the chained generators
    gi,                    \* the generator itertools.chain is consuming (from 1)
    pos,                   \* items that generator's underlying loop has consumed
    seen_in_file,          \* generate_from_file: seen_in_file
    final_unique_domains,  \* generate_domains: final_unique_domains
    processed_count,       \* generate_domains: processed_count
    yielded,               \* history: the labels generate_domains has yielded, in order
    stack,                 \* the active calls of check_li_domain, outermost first
    result,                \* main: result, the value check_li_domain returned
    open_socks,            \* sockets created and not yet closed
    count,                 \* main: count
    available_count,       \* main: available_count
    rate_limit_hits,       \* main: rate_limit_hits
    error_hits,            \* main: error_hits
    output_file,           \* main: output_file ("none", "open", "closed")
    live_log_file,         \* main: live_log_file ("none", "open", "closed")
    stats_printed,         \* times the summary of main's finally clause was printed
    events,                \* history: attempts and retry sleeps of the current query
    paces,                 \* history: the sleeps of main after the current result
    reported               \* history: the results main has processed, in order

genVars ==
    <<gpc, generators_to_run, gi, pos, seen_in_file, final_unique_domains,
      processed_count, yielded>>

statVars == <<count, available_count, rate_limit_hits, error_hits>>

fileVars == <<output_file, live_log_file, stats_printed>>

\* What the generator never touches.
scanVars == <<opts, stack, result, open_socks, statVars, fileVars, events, paces, reported>>

vars == <<call, cfg, mpc, endcause, domain_base, genVars, scanVars>>

(***************************************************************************)
(* The generator generate_domains (main.py:283-364).  Its body runs only   *)
(* while main's for statement is waiting in next() (mpc = "pull"); at a    *)
(* yield it is suspended and main's loop body runs.                        *)
(***************************************************************************)
\* A variant that also runs the generator during main's delay.
Pulling_Eager == mpc \in {"pull", "delay"}

Pulling == mpc = "pull"

CurrentSource == generators_to_run[gi]

\* First next(): steps 1-3; with no generator the function returns.
GenStart ==
    /\ Pulling /\ gpc = "unstarted"
    /\ generators_to_run' = BuildGenerators(cfg)
    /\ gi' = 1
    /\ pos' = 0
    /\ seen_in_file' = {}
    /\ final_unique_domains' = {}
    /\ processed_count' = 0
    /\ IF BuildGenerators(cfg) = <<>>
       THEN gpc' = "finished" /\ mpc' = "finally" /\ endcause' = "exhausted"
       ELSE gpc' = "running" /\ mpc' = mpc /\ endcause' = endcause
    /\ UNCHANGED <<call, cfg, domain_base, yielded, scanVars>>

HasItem ==
    /\ Pulling /\ gpc = "running"
    /\ gi <= Len(generators_to_run)
    /\ pos < SourceSize(CurrentSource)

\* The current generator's loop consumes an item and does not yield it.
GenSkip ==
    /\ HasItem
    /\ ~SourceYields(CurrentSource, SourceItem(CurrentSource, pos), seen_in_file)
    /\ pos' = pos + 1
    /\ UNCHANGED <<call, cfg, mpc, endcause, domain_base, gpc, generators_to_run, gi,
                   seen_in_file, final_unique_domains, processed_count, yielded,
                   scanVars>>

\* A variant of SeenAfter that adds nothing.
SeenAfter_Forgetful(src, item, seen) == seen

\* What generate_from_file adds to seen_in_file after its yield (main.py:259).
SeenAfter(src, item, seen) ==
    IF src.kind = "file" THEN seen \cup {item} ELSE seen

\* Variants of Accepts: without the set of labels already yielded, and without
\* the format check.
Accepts_NoDedup(candidate, allow_hyphen, seen) ==
    is_valid_domain_base(candidate, allow_hyphen)

Accepts_NoValidate(candidate, allow_hyphen, seen) ==
    candidate \notin seen

\* Whether the loop of generate_domains yields a candidate (main.py:354-356).
Accepts(candidate, allow_hyphen, seen) ==
    /\ is_valid_domain_base(candidate, allow_hyphen)
    /\ candidate \notin seen

\* The current generator yields a candidate that generate_domains drops
\* (main.py:351-356: invalid, or already yielded).
GenReject ==
    /\ HasItem
    /\ LET item == SourceItem(CurrentSource, pos)
       IN  /\ SourceYields(CurrentSource, item, seen_in_file)
           /\ ~Accepts(item, AllowHyphen(cfg), final_unique_domains)
           /\ seen_in_file' = SeenAfter(CurrentSource, item, seen_in_file)
    /\ pos' = pos + 1
    /\ processed_count' = processed_count + 1
    /\ UNCHANGED <<call, cfg, mpc, endcause, domain_base, gpc, generators_to_run, gi,
                   final_unique_domains, yielded, scanVars>>

\* The current generator yields a candidate that generate_domains yields to
\* main (main.py:357-358): main's loop body starts with it.
GenYield ==
    /\ HasItem
    /\ LET item == SourceItem(CurrentSource, pos)
       IN  /\ SourceYields(CurrentSource, item, seen_in_file)
           /\ Accepts(item, AllowHyphen(cfg), final_unique_domains)
           /\ seen_in_file' = SeenAfter(CurrentSource, item, seen_in_file)
           /\ final_unique_domains' = final_unique_domains \cup {item}
           /\ yielded' = Append(yielded, item)
           /\ domain_base' = item
    /\ pos' = pos + 1
    /\ processed_count' = processed_count + 1
    /\ gpc' = "suspended"
    /\ mpc' = "body"
    /\ UNCHANGED <<call, cfg, endcause, generators_to_run, gi, scanVars>>

\* The current generator is exhausted: itertools.chain starts the next one.
GenNextSource ==
    /\ Pulling /\ gpc = "running"
    /\ gi <= Len(generators_to_run)
    /\ pos = SourceSize(CurrentSource)
    /\ gi' = gi + 1
    /\ pos' = 0
    /\ seen_in_file' = {}
    /\ UNCHANGED <<call, cfg, mpc, endcause, domain_base, gpc, generators_to_run,
                   final_unique_domains, processed_count, yielded, scanVars>>

\* Every generator is exhausted: generate_domains returns, the for loop ends.
GenFinish ==
    /\ Pulling /\ gpc = "running"
    /\ gi > Len(generators_to_run)
    /\ gpc' = "finished"
    /\ mpc' = "finally"
    /\ endcause' = "exhausted"
    /\ UNCHANGED <<call, cfg, domain_base, generators_to_run, gi, pos, seen_in_file,
                   final_unique_domains, processed_count, yielded, scanVars>>

\* A later next(): the generator resumes after its yield.
GenResume ==
    /\ Pulling /\ gpc = "suspended"
    /\ gpc' = "running"
    /\ UNCHANGED <<call, cfg, mpc, endcause, domain_base, generators_to_run, gi, pos,
                   seen_in_file, final_unique_domains, processed_count, yielded,
                   scanVars>>

Generator ==
    \/ GenStart \/ GenResume \/ GenSkip \/ GenReject
    \/ GenYield \/ GenNextSource \/ GenFinish

(***************************************************************************)
(* The pipeline alone: generate_domains over every configuration drawn,    *)
(* consumed by a loop that only asks for the next label.                   *)
(***************************************************************************)
PipeConfigs ==
    { c \in [length : 0..MaxLen, chars_arg : CharsArgs, methods : MethodLists,
             min_repeats : 1..MaxRepeats, dict_file : DictFiles,
             pinyin_dict_file : PinyinFiles] :
        \* the arguments a method does not read stay at one value
        /\ InList("repeats", c.methods) \/ c.min_repeats = 2
        /\ InList("dict", c.methods) \/ c.dict_file = WordsFile
        /\ InList("pinyin", c.methods) \/ c.pinyin_dict_file = NoFile }

\* No function has been called on its own.
NoCall == [fn |-> "none", args |-> <<>>, out |-> <<>>]

GenInit ==
    /\ gpc = "unstarted"
    /\ generators_to_run = <<>>
    /\ gi = 1
    /\ pos = 0
    /\ seen_in_file = {}
    /\ final_unique_domains = {}
    /\ processed_count = 0
    /\ yielded = <<>>

\* The state of main's variables before the loop, with no output file.
ScanIdle ==
    /\ stack = <<>>
    /\ result = NoResult
    /\ open_socks = 0
    /\ count = 0
    /\ available_count = 0
    /\ rate_limit_hits = 0
    /\ error_hits = 0
    /\ stats_printed = 0
    /\ events = <<>>
    /\ paces = <<>>
    /\ reported = <<>>

InitPipe ==
    /\ call = NoCall
    /\ cfg \in PipeConfigs
    /\ opts = [max_retries |-> MAX_RETRIES, delay |-> 0, output |-> FALSE,
               live_log |-> FALSE]
    /\ output_file = "none"
    /\ live_log_file = "none"
    /\ mpc = "pull"
    /\ endcause = "none"
    /\ domain_base = <<>>
    /\ GenInit
    /\ ScanIdle

PipeConsume ==
    /\ mpc = "body"
    /\ mpc' = "pull"
    /\ UNCHANGED <<call, cfg, endcause, domain_base, genVars, scanVars>>

NextPipe == Generator \/ PipeConsume

SpecPipe == InitPipe /\ [][NextPipe]_vars

(***************************************************************************)
(* check_li_domain (main.py:38-182).  Each active call is a frame of       *)
(* stack: the retry is a recursive call made inside the except clause, so  *)
(* the caller's frame, with its socket, stays below the callee's until the *)
(* callee returns and the caller's finally clause runs.                    *)
(*   pc: connect (lines 71-77), recv (81-95), parse (97-144),              *)
(*       sleep (154, 164), call (155, 165), finally (172-180),             *)
(*       return (182 and the returns and raises that pass through finally) *)
(*   exc: the exception leaving the call, "none" for a normal return       *)
(*   timeout: history of the attempt: "data" once recv timed out with      *)
(*       bytes received, "empty" once it timed out with none               *)
(***************************************************************************)
NewFrame(retry_count) ==
    [retry_count |-> retry_count, pc |-> "connect", sock |-> "none",
     rbytes |-> 0, reads |-> 0, result |-> NoResult, exc |-> "none",
     timeout |-> "none"]

Top == stack[Len(stack)]

SetTop(f) == [stack EXCEPT ![Len(stack)] = f]

InCall(pc) == stack # <<>> /\ Top.pc = pc

NetworkErrorResult ==
    [status |-> "network_error", raw_code |-> {}, raw_response |-> <<>>]

\* A variant of OnNetworkError that retries while retry_count <= MAX_RETRIES.
OnNetworkError_OffByOne(f, max_retries) ==
    [f EXCEPT !.result = NetworkErrorResult,
              !.pc = IF f.retry_count <= max_retries THEN "sleep" ELSE "finally"]

\* except socket.timeout / except (socket.gaierror, ConnectionRefusedError,
\* OSError) (main.py:147-165): retry while retry_count < MAX_RETRIES.
OnNetworkError(f, max_retries) ==
    [f EXCEPT !.result = NetworkErrorResult,
              !.pc = IF f.retry_count < max_retries THEN "sleep" ELSE "finally"]

\* Variants of OnUnexpected: one retries like a network error, one lets the
\* exception leave the call.
OnUnexpected_Retry(f, max_retries) ==
    [f EXCEPT !.result = [NoResult EXCEPT !.status = "unknown_error"],
              !.pc = IF f.retry_count < max_retries THEN "sleep" ELSE "finally"]

OnUnexpected_Raise(f, max_retries) ==
    [f EXCEPT !.exc = "Exception", !.pc = "finally"]

\* except Exception (main.py:167-171).
OnUnexpected(f, max_retries) ==
    [f EXCEPT !.result = [NoResult EXCEPT !.status = "unknown_error"],
              !.pc = "finally"]

\* KeyboardInterrupt is no Exception: no except clause catches it.
OnInterrupt(f) == [f EXCEPT !.exc = "KeyboardInterrupt", !.pc = "finally"]

\* The frame after an attempt failed with an exception of the given kind.
OnFailure(f, kind, max_retries) ==
    CASE kind \in {"timeout", "oserror"} -> OnNetworkError(f, max_retries)
      [] kind = "fault" -> OnUnexpected(f, max_retries)
      [] OTHER -> OnInterrupt(f)

FailureKinds == {"timeout", "oserror", "fault", "interrupt"}

\* How the history names an attempt that raised: "network" for the two kinds
\* the except clauses of lines 147 and 157 catch.  An attempt that got a
\* response is named by the status it was given.
Category(kind) == IF kind \in {"timeout", "oserror"} THEN "network" ELSE kind

\* A variant of TimeoutEndsResponse: every timeout of recv is raised.
TimeoutEndsResponse_Never(rbytes) == FALSE

\* A variant of OnResponse that treats an empty response like a raised
\* network error.
OnResponse_RetryEmpty(f, text, max_retries) ==
    IF Classify(text).status = "network_error"
    THEN OnNetworkError(f, max_retries)
    ELSE [f EXCEPT !.result = Classify(text), !.pc = "finally"]

\* The frame after the response was decoded as text (main.py:97-144, every
\* path of which reaches the finally clause).
OnResponse(f, text, max_retries) ==
    [f EXCEPT !.result = Classify(text), !.pc = "finally"]

\* socket(), connect and sendall succeed (main.py:71-77).
ConnectOk ==
    /\ InCall("connect")
    /\ stack' = SetTop([Top EXCEPT !.sock = "open", !.pc = "recv"])
    /\ open_socks' = open_socks + 1
    /\ UNCHANGED <<call, cfg, opts, mpc, endcause, domain_base, genVars, result, statVars,
                   fileVars, events, paces, reported>>

\* socket() raises OSError and no socket exists, or, with the socket created,
\* connect or sendall raises, or the process is interrupted in them.
ConnectFail ==
    /\ InCall("connect")
    /\ \E kind \in FailureKinds, created \in BOOLEAN :
        /\ ~created => kind = "oserror"
        /\ stack' = SetTop(OnFailure(
                [Top EXCEPT !.sock = IF created THEN "open" ELSE "none"],
                kind, opts.max_retries))
        /\ open_socks' = IF created THEN open_socks + 1 ELSE open_socks
        /\ events' = Append(events, <<"attempt", Category(kind)>>)
    /\ UNCHANGED <<call, cfg, opts, mpc, endcause, domain_base, genVars, result, statVars,
                   fileVars, paces, reported>>

\* Whether the read loop goes on after a chunk (main.py:89).
ReadGoesOn(rbytes, terminated) ==
    ~(terminated \/ rbytes > RESPONSE_CAP)

\* recv returns a chunk (main.py:83-90): the loop goes on, or ends because the
\* response now holds the terminator or has passed the cap.
RecvChunk ==
    /\ InCall("recv")
    /\ Top.reads < MaxReads
    /\ \E n \in ChunkSizes, terminated \in BOOLEAN :
        stack' = SetTop([Top EXCEPT !.rbytes = @ + n,
                                    !.reads = @ + 1,
                                    !.pc = IF ReadGoesOn(Top.rbytes + n, terminated)
                                           THEN "recv" ELSE "parse"])
    /\ UNCHANGED <<call, cfg, opts, mpc, endcause, domain_base, genVars, result,
                   open_socks, statVars, fileVars, events, paces, reported>>

\* recv returns no bytes: the peer closed the connection (main.py:84-85).
RecvEof ==
    /\ InCall("recv")
    /\ stack' = SetTop([Top EXCEPT !.pc = "parse"])
    /\ UNCHANGED <<call, cfg, opts, mpc, endcause, domain_base, genVars, result,
                   open_socks, statVars, fileVars, events, paces, reported>>

\* Whether a timeout of recv ends the response instead of being raised
\* (main.py:91-95).
TimeoutEndsResponse(rbytes) == rbytes > 0

\* recv times out with bytes received: the response ends (main.py:91-94).
RecvTimeoutWithData ==
    /\ InCall("recv")
    /\ TimeoutEndsResponse(Top.rbytes)
    /\ stack' = SetTop([Top EXCEPT !.pc = "parse", !.timeout = "data"])
    /\ UNCHANGED <<call, cfg, opts, mpc, endcause, domain_base, genVars, result,
                   open_socks, statVars, fileVars, events, paces, reported>>

\* The bytes of an attempt that is over are not read again: the frame forgets them.
Forget(f) == [f EXCEPT !.rbytes = 0, !.reads = 0]

\* The history of a recv that timed out with the given number of bytes received.
TimedOut(rbytes) == IF rbytes > 0 THEN "data" ELSE "empty"

\* recv raises: a timeout with nothing received, another socket error, an
\* unexpected exception, or an interrupt.
RecvFail ==
    /\ InCall("recv")
    /\ \E kind \in FailureKinds :
        /\ kind = "timeout" => ~TimeoutEndsResponse(Top.rbytes)
        /\ stack' = SetTop(OnFailure(
                [Forget(Top) EXCEPT !.timeout = IF kind = "timeout"
                                                THEN TimedOut(Top.rbytes) ELSE @],
                kind, opts.max_retries))
        /\ events' = Append(events, <<"attempt", Category(kind)>>)
    /\ UNCHANGED <<call, cfg, opts, mpc, endcause, domain_base, genVars, result,
                   open_socks, statVars, fileVars, paces, reported>>

\* The response is decoded and classified (main.py:97-144).
Parse ==
    /\ InCall("parse")
    /\ \E text \in ResponsesOf(Top.rbytes) :
        /\ stack' = SetTop(OnResponse(Forget(Top), text, opts.max_retries))
        /\ events' = Append(events, <<"attempt", Classify(text).status>>)
    /\ UNCHANGED <<call, cfg, opts, mpc, endcause, domain_base, genVars, result,
                   open_socks, statVars, fileVars, paces, reported>>

\* time.sleep(1) returns and the function calls itself (main.py:154-155,
\* 164-165).
RetrySleep ==
    /\ InCall("sleep")
    /\ stack' = Append(SetTop([Top EXCEPT !.pc = "call", !.timeout = "none"]),
                       NewFrame(Top.retry_count + 1))
    /\ events' = Append(events, <<"sleep", 1>>)
    /\ UNCHANGED <<call, cfg, opts, mpc, endcause, domain_base, genVars, result,
                   open_socks, statVars, fileVars, paces, reported>>

\* The process is interrupted in time.sleep(1).
RetrySleepInterrupt ==
    /\ InCall("sleep")
    /\ stack' = SetTop(OnInterrupt(Top))
    /\ events' = Append(events, <<"interrupt", 0>>)
    /\ UNCHANGED <<call, cfg, opts, mpc, endcause, domain_base, genVars, result,
                   open_socks, statVars, fileVars, paces, reported>>

\* A variant of SockAfterFinally that closes only after a shutdown that returned.
SockAfterFinally_SkipCloseOnError(sock, shut) ==
    IF sock = "open" /\ shut = "ok" THEN "closed" ELSE sock

\* The socket after the finally clause (main.py:172-180): shutdown returns,
\* raises an Exception (swallowed), or is interrupted; close runs in each case.
SockAfterFinally(sock, shut) ==
    IF sock = "open" THEN "closed" ELSE sock

Finally ==
    /\ InCall("finally")
    /\ \E shut \in {"ok", "error", "interrupt"} :
        /\ Top.sock # "open" => shut = "ok"
        /\ LET after == SockAfterFinally(Top.sock, shut)
           IN  /\ stack' = SetTop(
                      [Top EXCEPT !.sock = after,
                                  !.pc = "return",
                                  !.timeout = "none",
                                  !.exc = IF shut = "interrupt"
                                          THEN "KeyboardInterrupt" ELSE @])
               /\ open_socks' = IF Top.sock = "open" /\ after = "closed"
                                THEN open_socks - 1 ELSE open_socks
    /\ UNCHANGED <<call, cfg, opts, mpc, endcause, domain_base, genVars, result,
                   statVars, fileVars, events, paces, reported>>

\* A retry returns to the call that made it: the return statement of the
\* except clause passes the value on, through the caller's finally clause.
ReturnToCaller ==
    /\ InCall("return")
    /\ Len(stack) > 1
    /\ LET caller == stack[Len(stack) - 1]
       IN  stack' = [SubSeq(stack, 1, Len(stack) - 1) EXCEPT ![Len(stack) - 1] =
                        [caller EXCEPT !.result = Top.result,
                                       !.exc = Top.exc,
                                       !.pc = "finally"]]
    /\ UNCHANGED <<call, cfg, opts, mpc, endcause, domain_base, genVars, result,
                   open_socks, statVars, fileVars, events, paces, reported>>

\* The outermost call returns to main (main.py:497), or its exception reaches
\* the except clauses of main (main.py:549-552).
ReturnToMain ==
    /\ InCall("return")
    /\ Len(stack) = 1
    /\ stack' = <<>>
    /\ IF Top.exc = "none"
       THEN /\ result' = Top.result
            /\ mpc' = "process"
            /\ endcause' = endcause
       ELSE /\ result' = result
            /\ mpc' = "finally"
            /\ endcause' = IF Top.exc = "KeyboardInterrupt" THEN "interrupt"
                           ELSE "query_exception"
    /\ UNCHANGED <<call, cfg, opts, domain_base, genVars, open_socks, statVars, fileVars,
                   events, paces, reported>>

Query ==
    \/ ConnectOk \/ ConnectFail \/ RecvChunk \/ RecvEof \/ RecvTimeoutWithData
    \/ RecvFail \/ Parse \/ RetrySleep \/ RetrySleepInterrupt \/ Finally
    \/ ReturnToCaller \/ ReturnToMain

(***************************************************************************)
(* The loop of main (main.py:493-552) and its finally clause (553-586).    *)
(***************************************************************************)
\* domain_full = f"{domain_base}.li" (main.py:59).
DomainFull(base) == base \o <<".", "l", "i">>

ErrorStatuses ==
    {"rate_limited", "server_error", "network_error", "unknown_error",
     "invalid_query"}

\* A variant of PenaltyPause with one factor for both statuses.
PenaltyPause_Same(status, delay) ==
    CASE status \in {"rate_limited", "server_error"} ->
            IF delay > 0 THEN delay * 2 ELSE 2
      [] OTHER -> 0

\* pause_time (main.py:534, 540); 0 for a status with no pause.
PenaltyPause(status, delay) ==
    CASE status = "rate_limited" -> IF delay > 0 THEN delay * 5 ELSE 5
      [] status = "server_error" -> IF delay > 0 THEN delay * 2 ELSE 2
      [] OTHER -> 0

\* A variant of AfterProcess that queries the label again after its pause.
AfterProcess_Requery(from, status, delay) ==
    IF from = "process" /\ status \in {"rate_limited", "server_error"}
    THEN "penalty"
    ELSE IF from = "penalty" THEN "body"
    ELSE IF from = "process" /\ delay > 0 THEN "delay"
    ELSE "pull"

\* Where main goes after processing a result, or after the pause at from.
AfterProcess(from, status, delay) ==
    IF from = "process" /\ status \in {"rate_limited", "server_error"}
    THEN "penalty"
    ELSE IF from \in {"process", "penalty"} /\ delay > 0 THEN "delay"
    ELSE "pull"

\* count += 1 and the call of check_li_domain (main.py:495-497).
MainQuery ==
    /\ mpc = "body"
    /\ count' = count + 1
    /\ stack' = <<NewFrame(0)>>
    /\ events' = <<>>
    /\ paces' = <<>>
    /\ mpc' = "query"
    /\ UNCHANGED <<call, cfg, opts, endcause, domain_base, genVars, result, open_socks,
                   available_count, rate_limit_hits, error_hits, fileVars,
                   reported>>

\* The counters after a result (main.py:505-517, 531-532).
CountResult(status) ==
    /\ error_hits' = IF status \in ErrorStatuses THEN error_hits + 1 ELSE error_hits
    /\ available_count' =
          IF status = "available" THEN available_count + 1 ELSE available_count
    /\ rate_limit_hits' =
          IF status = "rate_limited" THEN rate_limit_hits + 1 ELSE rate_limit_hits

\* The result is printed and counted, and an available domain is written to
\* the files that are open (main.py:499-532, up to the pause).
MainProcess ==
    /\ mpc = "process"
    /\ CountResult(result.status)
    /\ reported' = Append(reported, [domain |-> DomainFull(domain_base),
                                     status |-> result.status])
    /\ mpc' = AfterProcess("process", result.status, opts.delay)
    /\ events' = <<>>
    /\ UNCHANGED <<call, cfg, opts, endcause, domain_base, genVars, stack, result,
                   open_socks, count, fileVars, paces>>

\* write or flush of an open file raises (main.py:521-529): the except
\* Exception clause of main ends the loop (main.py:551-552).
MainWriteFault ==
    /\ mpc = "process"
    /\ result.status = "available"
    /\ output_file = "open" \/ live_log_file = "open"
    /\ CountResult(result.status)
    /\ reported' = Append(reported, [domain |-> DomainFull(domain_base),
                                     status |-> result.status])
    /\ mpc' = "finally"
    /\ endcause' = "bookkeeping"
    /\ events' = <<>>
    /\ UNCHANGED <<call, cfg, opts, domain_base, genVars, stack, result, open_socks,
                   count, fileVars, paces>>

\* time.sleep(pause_time) returns (main.py:536, 542).
MainPenalty ==
    /\ mpc = "penalty"
    /\ paces' = Append(paces, PenaltyPause(result.status, opts.delay))
    /\ mpc' = AfterProcess("penalty", result.status, opts.delay)
    /\ UNCHANGED <<call, cfg, opts, endcause, domain_base, genVars, stack, result,
                   open_socks, statVars, fileVars, events, reported>>

\* time.sleep(args.delay) returns (main.py:545-547).
MainDelay ==
    /\ mpc = "delay"
    /\ paces' = Append(paces, opts.delay)
    /\ mpc' = "pull"
    /\ UNCHANGED <<call, cfg, opts, endcause, domain_base, genVars, stack, result,
                   open_socks, statVars, fileVars, events, reported>>

\* KeyboardInterrupt in main itself: in one of its sleeps, between two
\* statements of the loop, or in next() (main.py:549-550); raised inside the
\* body of the generator, it finishes the generator on its way to main.
MainInterrupt ==
    /\ mpc \in {"pull", "body", "process", "penalty", "delay"}
    /\ mpc' = "finally"
    /\ endcause' = "interrupt"
    /\ gpc' = IF mpc = "pull" /\ gpc = "running" THEN "finished" ELSE gpc
    /\ UNCHANGED <<call, cfg, opts, domain_base, generators_to_run, gi, pos,
                   seen_in_file, final_unique_domains, processed_count, yielded,
                   scanVars>>

\* A variant of ClosedFile that leaves the file as it is.
ClosedFile_Keep(f) == f

\* The finally clause of main (main.py:553-586): the summary, then the files.
ClosedFile(f) == IF f = "open" THEN "closed" ELSE f

MainFinally ==
    /\ mpc = "finally"
    /\ stats_printed' = stats_printed + 1
    /\ output_file' = ClosedFile(output_file)
    /\ live_log_file' = ClosedFile(live_log_file)
    /\ mpc' = "done"
    /\ UNCHANGED <<call, cfg, opts, endcause, domain_base, genVars, stack, result,
                   open_socks, statVars, events, paces, reported>>

Main ==
    \/ MainQuery \/ MainProcess \/ MainWriteFault \/ MainPenalty \/ MainDelay
    \/ MainInterrupt \/ MainFinally

(***************************************************************************)
(* The scan: main over a few configurations that pass its argument checks  *)
(* (main.py:421-430), every retry bound and delay drawn, the WHOIS server  *)
(* and the network free to answer or fail in every way.                    *)
(***************************************************************************)
ScanConfigs ==
    { [length |-> 1, chars_arg |-> "letters-hyphen", methods |-> <<"all", "dict">>,
       min_repeats |-> 2, dict_file |-> WordsFile, pinyin_dict_file |-> NoFile] }

\* --output and --live-log given or not: both, the first, or neither.
ScanOptions ==
    { o \in [max_retries : 0..MaxRetries, delay : 0..MaxDelay, output : BOOLEAN,
             live_log : BOOLEAN] : o.live_log => o.output }

Init ==
    /\ call = NoCall
    /\ cfg \in ScanConfigs
    /\ opts \in ScanOptions
    /\ output_file = IF opts.output THEN "open" ELSE "none"
    /\ live_log_file = IF opts.live_log THEN "open" ELSE "none"
    /\ mpc = "pull"
    /\ endcause = "none"
    /\ domain_base = <<>>
    /\ GenInit
    /\ ScanIdle

Next == Generator \/ Query \/ Main

Spec == Init /\ [][Next]_vars

\* The interpreter goes on executing: once the loop has ended, the finally
\* clause of main runs.
LiveSpec == Spec /\ WF_vars(MainFinally)

(***************************************************************************)
(* The functions of the program called on their own, each once, on every   *)
(* argument drawn from a bounded set.                                      *)
(***************************************************************************)
\* Strings of at most n characters of the set chars.
StringsUpTo(n, chars) == UNION { [1..k -> chars] : k \in 0..n }

LabelChars == {"a", "b", "-", "."}

CallIsValidDomainBase ==
    /\ call = NoCall
    /\ \E domain_base_arg \in StringsUpTo(MaxLabel, LabelChars),
          allow_hyphen \in BOOLEAN :
          call' = [fn |-> "is_valid_domain_base",
                   args |-> <<domain_base_arg, allow_hyphen>>,
                   out |-> is_valid_domain_base(domain_base_arg, allow_hyphen)]
    /\ UNCHANGED <<cfg, mpc, endcause, domain_base, genVars, scanVars>>

\* Everything a generator yields from position i of its underlying iteration
\* on, when it is run to its end on its own.
RECURSIVE SourceOutput(_, _, _)
SourceOutput(src, i, seen) ==
    IF i >= SourceSize(src) THEN <<>>
    ELSE LET item == SourceItem(src, i)
         IN  IF SourceYields(src, item, seen)
             THEN <<item>> \o SourceOutput(src, i + 1, SeenAfter(src, item, seen))
             ELSE SourceOutput(src, i + 1, seen)

PatternCharsets == {get_charset(c) : c \in {"letters", "digits", "letters-hyphen"}}

CallGenerateRepeatingPatterns ==
    /\ call = NoCall
    /\ \E length \in (0 - 1)..MaxPatternLen, charset \in PatternCharsets,
          min_repeats \in 0..MaxRepeats :
          call' = [fn |-> "generate_repeating_patterns",
                   args |-> <<length, charset, min_repeats>>,
                   out |-> SourceOutput(RepeatsSource(length, charset, min_repeats),
                                        0, {})]
    /\ UNCHANGED <<cfg, mpc, endcause, domain_base, genVars, scanVars>>

\* The lines of the files drawn, without their line ends.
LineChoices ==
    { <<"a", "b">>, <<"A", "b">>, <<" ", "a", "b", "\t">>, <<"b", "a">>, <<"a">>,
      <<"a", "-">>, <<"0", "b">>, <<>> }

ReadableFiles ==
    { [given |-> TRUE, kind |-> "ok", okLines |-> 0, lines |-> ls] :
        ls \in StringsUpTo(MaxLines, LineChoices) }

FileCharsets == {get_charset(c) : c \in {"letters", "letters-hyphen"}}

CallGenerateFromFile ==
    /\ call = NoCall
    /\ \E file \in ReadableFiles, length \in 0..MaxLen, charset \in FileCharsets :
          call' = [fn |-> "generate_from_file",
                   args |-> <<file, length, charset>>,
                   out |-> SourceOutput(FileSource(file, length, charset), 0, {})]
    /\ UNCHANGED <<cfg, mpc, endcause, domain_base, genVars, scanVars>>

InitFunctions ==
    /\ call = NoCall
    /\ cfg \in ScanConfigs
    /\ opts = [max_retries |-> MAX_RETRIES, delay |-> 0, output |-> FALSE,
               live_log |-> FALSE]
    /\ output_file = "none"
    /\ live_log_file = "none"
    /\ mpc = "pull"
    /\ endcause = "none"
    /\ domain_base = <<>>
    /\ GenInit
    /\ ScanIdle

NextFunctions ==
    \/ CallIsValidDomainBase
    \/ CallGenerateRepeatingPatterns
    \/ CallGenerateFromFile

SpecFunctions == InitFunctions /\ [][NextFunctions]_vars

(***************************************************************************)
(* Properties of the pipeline (checked under SpecPipe).                    *)
(***************************************************************************)

\* The last item the current generator consumed, once it has consumed one.
LastItem == SourceItem(CurrentSource, pos - 1)

ConsumedOne == gpc \in {"running", "suspended"} /\ gi <= Len(generators_to_run) /\ pos >= 1

\* C1: the labels generate_domains yields in one run are pairwise distinct,
\* whatever the methods, files, charset and length.
C1_NoDuplicateLabels ==
    \A i, j \in 1..Len(yielded) : i # j => yielded[i] # yielded[j]

\* C1 witness: a later generator has produced a string that the exhaustive
\* generator had produced and the pipeline had yielded before.
C1_Witness ==
    /\ ConsumedOne
    /\ gi >= 2
    /\ generators_to_run[1].kind = "all"
    /\ LastItem \in Range(yielded)
    /\ IF CurrentSource.kind = "file" THEN LastItem \in seen_in_file
       ELSE pattern_search(LastItem, CurrentSource.min_repeats)

\* The rules of a valid label, as the specification states them.
LabelValid(label, hyphenAllowed) ==
    /\ label # <<>>
    /\ "." \notin Range(label)
    /\ hyphenAllowed => (label[1] # "-" /\ label[Len(label)] # "-")
    /\ ~hyphenAllowed => "-" \notin Range(label)

\* C2: every label yielded has the configured length, only characters of the
\* resolved charset, and is a valid label.
C2_YieldedLabelsWellFormed ==
    \A i \in 1..Len(yielded) :
        /\ Len(yielded[i]) = cfg.length
        /\ Range(yielded[i]) \subseteq Range(get_charset(cfg.chars_arg))
        /\ LabelValid(yielded[i], AllowHyphen(cfg))

\* C2 witness: a label has been yielded and the pipeline has just dropped a
\* candidate of the right length that is not a valid label.
C2_Witness ==
    /\ ConsumedOne
    /\ gpc = "running"
    /\ yielded # <<>>
    /\ SourceYields(CurrentSource, LastItem, {})
    /\ ~LabelValid(LastItem, AllowHyphen(cfg))

(***************************************************************************)
(* Properties of the query and of the scan loop (checked under Spec).      *)
(***************************************************************************)

\* The attempts of the current query that are over, by their place in events.
AttemptIndexes == {i \in 1..Len(events) : events[i][1] = "attempt"}

\* The outermost call has returned or raised and main has not yet processed
\* the outcome.
ChainOver == stack = <<>> /\ events # <<>>

\* The history of n+1 attempts that all failed with a network error, one
\* second of sleep before each attempt but the first.
RetryTrace(n) ==
    [i \in 1..(2 * n + 1) |->
        IF i % 2 = 1 THEN <<"attempt", "network">> ELSE <<"sleep", 1>>]

\* C3: for every maxRetries N, when every attempt of a query fails with a
\* network error (timeout, refused connection, DNS failure, other socket
\* error) and the process is not interrupted, the query makes exactly N+1
\* attempts, sleeps one second before each of the N re-attempts, and returns
\* a network_error result without raising.
C3_RetryBoundExact ==
    ( /\ ChainOver
      /\ \A i \in AttemptIndexes : events[i][2] = "network"
      /\ endcause # "interrupt" )
    => ( /\ events = RetryTrace(opts.max_retries)
         /\ mpc = "process"
         /\ result.status = "network_error" )

\* C3 witness: with maxRetries 2, three failed attempts and two sleeps, and
\* the network_error result is back in main.
C3_Witness ==
    /\ ChainOver
    /\ mpc = "process"
    /\ opts.max_retries = 2
    /\ events = RetryTrace(2)
    /\ result.status = "network_error"

\* C4 as stated: whenever the query returns network_error, for any cause
\* including an empty response, 1+maxRetries attempts were made.
C4_Original ==
    (ChainOver /\ mpc = "process" /\ result.status = "network_error")
    => Cardinality(AttemptIndexes) = opts.max_retries + 1

\* C4 amended: a network_error result caused by a raised socket error
\* (timeout, refused connection, DNS failure, other socket error) is returned
\* only after 1+maxRetries attempts; an empty response is returned as
\* network_error by the attempt that received it, with no retry after it, so
\* after at most 1+maxRetries attempts.
C4_NetworkErrorAfterRetries ==
    (ChainOver /\ mpc = "process" /\ result.status = "network_error")
    => ( /\ events[Len(events)] \in {<<"attempt", "network">>,
                                     <<"attempt", "network_error">>}
         /\ events[Len(events)] = <<"attempt", "network">>
               => Cardinality(AttemptIndexes) = opts.max_retries + 1
         /\ events[Len(events)] = <<"attempt", "network_error">>
               => Cardinality(AttemptIndexes) <= opts.max_retries + 1
         /\ \A i \in AttemptIndexes : i < Len(events) => events[i][2] = "network" )

\* C4 witness: with maxRetries 2, the first attempt received an empty
\* response and network_error is returned after that single attempt.
C4_Witness ==
    /\ ChainOver
    /\ mpc = "process"
    /\ opts.max_retries = 2
    /\ result.status = "network_error"
    /\ events = << <<"attempt", "network_error">> >>

\* C5: an attempt that ends with a parse failure, an unrecognized code or an
\* unexpected exception (status unknown_error) is the last event of its
\* query: no sleep and no attempt follows it, whatever the retry budget, and
\* the result returned is unknown_error.
C5_UnknownErrorNotRetried ==
    /\ \A i \in AttemptIndexes :
          events[i][2] \in {"fault", "unknown_error"} => i = Len(events)
    /\ \A k \in 1..Len(stack) :
          stack[k].pc \in {"sleep", "call"} => stack[k].result.status = "network_error"
    /\ ( /\ ChainOver /\ mpc = "process"
         /\ events[Len(events)][2] \in {"fault", "unknown_error"} )
       => result.status = "unknown_error"

\* C5 witness: with two retries allowed, a first attempt failed with a network
\* error, the second ended with unknown_error and the query returned it.
C5_Witness ==
    /\ ChainOver
    /\ mpc = "process"
    /\ opts.max_retries = 2
    /\ result.status = "unknown_error"
    /\ Len(events) = 3
    /\ events[3][2] \in {"fault", "unknown_error"}

\* The status of each code, as the table of the specification gives it.
TableStatus(code) ==
    IF code = 1 THEN "available"
    ELSE IF code = 0 THEN "unavailable"
    ELSE IF code = -1 THEN "invalid_query"
    ELSE IF code = -95 THEN "rate_limited"
    ELSE IF code = -99 THEN "server_error"
    ELSE "unknown_error"

\* The integer each response drawn carries before the colon of its first line
\* (responses by their text after strip; the others carry none).
CodeOfResponse ==
    ( <<"1", ":">> :> 1 ) @@ ( <<"0", ":">> :> 0 ) @@ ( <<"-", "1", ":">> :> -1 )
    @@ ( <<"-", "9", "5", ":">> :> -95 ) @@ ( <<"-", "9", "9", ":">> :> -99 )
    @@ ( <<"7", ":">> :> 7 ) @@ ( <<"-", "9", ":">> :> -9 )
    @@ ( <<"1", "0", ":">> :> 10 ) @@ ( <<"+", "1", ":">> :> 1 )
    @@ ( <<"1", " ", ":", "x", "\n", "0", ":">> :> 1 )

\* C6: the status of a result is the one the table gives for the integer of
\* the first response line (1, 0, -1, -95, -99, any other integer), and that
\* integer is recorded as raw_code.
C6_CodeMapping ==
    /\ result.raw_response \in DOMAIN CodeOfResponse
          => /\ result.raw_code = {CodeOfResponse[result.raw_response]}
             /\ result.status = TableStatus(CodeOfResponse[result.raw_response])
    /\ \A c \in result.raw_code :
          /\ result.raw_response \in DOMAIN CodeOfResponse
          /\ result.status = TableStatus(c)

\* C6 witness: the response "-95:" has come back as rate_limited with code -95.
C6_Witness ==
    /\ mpc = "process"
    /\ result.raw_response = <<"-", "9", "5", ":">>
    /\ result.status = "rate_limited"
    /\ result.raw_code = {-95}

\* C7: a call of check_li_domain that returns or raises has closed the socket
\* it created, on every path, and no socket is open once the query is over.
C7_SocketsClosed ==
    /\ \A k \in 1..Len(stack) : stack[k].pc = "return" => stack[k].sock # "open"
    /\ stack = <<>> => open_socks = 0

\* C7 witness: the outermost call is about to raise KeyboardInterrupt after two
\* retries, and every socket of the query is closed.
C7_Witness ==
    /\ Len(stack) = 1
    /\ Top.pc = "return"
    /\ Top.exc = "KeyboardInterrupt"
    /\ Top.sock = "closed"
    /\ open_socks = 0
    /\ Len(events) >= 5

\* The sleeps the specification gives after a result, for a delay d >= 0.
ExpectedPaces(status, d) ==
    ( IF status = "rate_limited" THEN << IF d = 0 THEN 5 ELSE 5 * d >>
      ELSE IF status = "server_error" THEN << IF d = 0 THEN 2 ELSE 2 * d >>
      ELSE <<>> )
    \o ( IF d > 0 THEN <<d>> ELSE <<>> )

\* main has finished with the last result and is asking for, or has got, the
\* next label.
Paced == mpc \in {"pull", "body"} /\ reported # <<>>

\* C8: after each result main sleeps 5*delay (5 s for delay 0) on
\* rate_limited, 2*delay (2 s for delay 0) on server_error, not at all on
\* another status, and then sleeps delay whenever delay > 0.
C8_Pacing ==
    Paced => paces = ExpectedPaces(reported[Len(reported)].status, opts.delay)

\* C8 witness: delay 1 and a rate_limited result: the sleeps were 5 then 1.
C8_Witness ==
    /\ Paced
    /\ opts.delay = 1
    /\ reported[Len(reported)].status = "rate_limited"
    /\ paces = <<5, 1>>

\* C9: the generator runs only while main asks for the next label, which is
\* after the previous label was queried with all its retries, reported and
\* paced; it is never a label ahead; results are reported in the order of the
\* labels.
C9_SequentialLazy ==
    /\ Len(yielded) \in {count, count + 1}
    /\ Len(reported) \in {count, count - 1}
    /\ \A i \in 1..Len(reported) : reported[i].domain = DomainFull(yielded[i])
    /\ gpc = "running"
          => /\ mpc = "pull"
             /\ stack = <<>>
             /\ Len(yielded) = count
             /\ Len(reported) = count
             /\ reported # <<>> =>
                   paces = ExpectedPaces(reported[Len(reported)].status, opts.delay)
    /\ stack # <<>>
          => /\ gpc = "suspended"
             /\ Len(yielded) = count
             /\ Len(reported) = count - 1

\* C9 witness: the second label is in its first retry while the generator is
\* suspended, and the first result has been reported.
C9_Witness ==
    /\ Len(yielded) = 2
    /\ Len(reported) = 1
    /\ Len(stack) = 2
    /\ gpc = "suspended"

\* C10: no status ends the scan: the loop ends only when the pipeline is
\* exhausted, on an interrupt, or on a fault of the loop's own bookkeeping
\* (writing an available domain to a file); no exception other than an
\* interrupt leaves a query.
C10_OutcomesDoNotEndScan ==
    /\ endcause \in {"none", "exhausted", "interrupt", "bookkeeping"}
    /\ mpc \in {"finally", "done"} => endcause # "none"
    /\ endcause = "exhausted" => gpc = "finished"
    /\ endcause = "none" /\ reported # <<>> /\ stack = <<>> /\ events = <<>>
          => mpc \in {"penalty", "delay", "pull", "body"}

\* C10 witness: the first label ended in network_error, the second in
\* unknown_error, and main asks the pipeline for a third.
C10_Witness ==
    /\ Len(reported) = 2
    /\ reported[1].status = "network_error"
    /\ reported[2].status = "unknown_error"
    /\ mpc = "pull"
    /\ endcause = "none"

(***************************************************************************)
(* Properties of the end of the scan (checked under LiveSpec).             *)
(***************************************************************************)
EndCauses == {"exhausted", "interrupt", "bookkeeping"}

\* C11: however the loop ends (pipeline exhausted, interrupt anywhere in the
\* loop, in a query or in a sleep, fault of a file write), main eventually
\* prints the summary, exactly once, and leaves no output file open; the
\* summary is not printed while the loop runs.
C11_FinalStatisticsOnce ==
    /\ [](mpc # "done" => stats_printed = 0)
    /\ [](mpc = "done" => /\ stats_printed = 1
                          /\ output_file # "open"
                          /\ live_log_file # "open")
    /\ \A cause \in EndCauses : (endcause = cause) ~> (mpc = "done")

\* C11 witness: the run was interrupted inside a query that had already slept
\* for a retry, with both files open; the summary is printed and the files
\* are closed.
C11_Witness ==
    /\ mpc = "done"
    /\ endcause = "interrupt"
    /\ \E i \in 1..Len(events) : events[i][1] = "sleep"
    /\ stats_printed = 1
    /\ output_file = "closed"
    /\ live_log_file = "closed"

(***************************************************************************)
(* Properties of the read loop (checked under Spec).                       *)
(***************************************************************************)
\* C12: the read loop caps the response at 8192 bytes: no call has
\* accumulated more than 8192 bytes, and none goes on reading once it has
\* accumulated 8192.
C12_Original ==
    \A i \in 1..Len(stack) :
        /\ stack[i].rbytes <= RESPONSE_CAP
        /\ stack[i].pc = "recv" => stack[i].rbytes < RESPONSE_CAP

\* What C13 says of a frame whose recv timed out with nothing received: the
\* attempt is a network failure, retried while retries are left.
TimeoutEmptyRetried(f) ==
    f.timeout = "empty"
        => /\ f.result = NetworkErrorResult
           /\ f.pc \in {"sleep", "finally"}
           /\ f.pc = "sleep" => f.retry_count < opts.max_retries
           /\ f.pc = "finally"
                 => f.retry_count >= opts.max_retries \/ f.exc = "KeyboardInterrupt"

\* What C13 says of a frame whose recv timed out with bytes received: the
\* response is over and is classified as any response is, with no retry.
TimeoutDataParsed(f) ==
    f.timeout = "data"
        => /\ f.pc \in {"parse", "finally"}
           /\ f.pc = "parse" => f.rbytes > 0
           /\ f.pc = "finally"
                 => /\ f.exc = "none"
                    /\ \E text \in Responses : f.result = Classify(text)
                    /\ events[Len(events)] = <<"attempt", f.result.status>>

\* C13 as stated: a read timeout after at least one byte ends the response,
\* which is classified with no NetworkError and no retry; a read timeout with
\* no byte goes to the retry path.
C13_Original ==
    \A i \in 1..Len(stack) :
        /\ TimeoutEmptyRetried(stack[i])
        /\ TimeoutDataParsed(stack[i])
        /\ stack[i].timeout = "data" /\ stack[i].pc = "finally"
              => stack[i].result.status # "network_error"

\* C13, amended: a read timeout after at least one byte ends the response,
\* which is classified as any response is, with no retry: its status is
\* network_error exactly when the decoded text is blank; a read timeout with
\* no byte goes to the retry path.
C13_ReadTimeout ==
    \A i \in 1..Len(stack) :
        /\ TimeoutEmptyRetried(stack[i])
        /\ TimeoutDataParsed(stack[i])
        /\ stack[i].timeout = "data" /\ stack[i].pc = "finally"
              => (stack[i].result.status = "network_error"
                    <=> stack[i].result = Classify(<<>>))

\* C13 witness: a retry whose recv timed out after some bytes was classified
\* available from them.
C13_Witness ==
    /\ Len(stack) = 2
    /\ Top.timeout = "data"
    /\ Top.pc = "finally"
    /\ Top.result.status = "available"

(***************************************************************************)
(* Properties of the functions (checked under SpecFunctions).              *)
(***************************************************************************)
Called(fn) == call.fn = fn

\* C14: is_valid_domain_base(label, hyphenAllowed) is true exactly when the
\* label is non-empty, has no '.', and either hyphens are allowed and the
\* label neither starts nor ends with '-', or hyphens are not allowed and
\* the label has no '-'; with hyphens allowed "-ab" and "ab-" are rejected
\* and "a-b" is accepted.
C14_ValidatorRule ==
    Called("is_valid_domain_base") =>
        LET label == call.args[1]
            hyphenAllowed == call.args[2]
        IN  /\ call.out <=>
                  /\ label # <<>>
                  /\ "." \notin Range(label)
                  /\ \/ hyphenAllowed /\ label[1] # "-" /\ label[Len(label)] # "-"
                     \/ ~hyphenAllowed /\ "-" \notin Range(label)
            /\ call.args \in {<< <<"-", "a", "b">>, TRUE >>,
                              << <<"a", "b", "-">>, TRUE >>} => ~call.out
            /\ call.args = << <<"a", "-", "b">>, TRUE >> => call.out

\* C14 witness: the validator was called on "a-b" with hyphens allowed and
\* accepted it.
C14_Witness ==
    /\ Called("is_valid_domain_base")
    /\ call.args = << <<"a", "-", "b">>, TRUE >>
    /\ call.out

\* Exhaustive(length, alphabet): every string of that length over the
\* alphabet, the last position varying fastest; nothing for length <= 0.
Exhaustive(length, alphabet) ==
    IF length <= 0 THEN <<>>
    ELSE [i \in 1..ProductSize(length, alphabet) |->
            ProductItem(i - 1, length, alphabet)]

\* The string holds a run of n or more copies of one letter or digit.
HasRun(s, n) ==
    \E i \in 1..Len(s) :
        /\ i + n - 1 <= Len(s)
        /\ s[i] \in Range(ALNUM)
        /\ \A j \in i..(i + n - 1) : s[j] = s[i]

FilterRuns(strings, n) ==
    LET Keep(str) == HasRun(str, n) IN SelectSeq(strings, Keep)

\* C15: for length > 0 and minRepeats >= 2, generate_repeating_patterns
\* yields, in the order of Exhaustive, exactly the strings of Exhaustive that
\* hold a run of minRepeats or more copies of one letter or digit (hyphens do
\* not make a run); it yields nothing for length <= 0 or minRepeats < 2; for
\* alphabet "ab", length 4, minRepeats 3 it yields exactly aaaa, aaab, abbb,
\* baaa, bbba, bbbb.
C15_RepeatPattern ==
    Called("generate_repeating_patterns") =>
        LET length == call.args[1]
            alphabet == call.args[2]
            minRepeats == call.args[3]
        IN  /\ length > 0 /\ minRepeats >= 2
                  => call.out = FilterRuns(Exhaustive(length, alphabet), minRepeats)
            /\ length <= 0 \/ minRepeats < 2 => call.out = <<>>
            /\ call.args = << 4, <<"a", "b">>, 3 >>
                  => Range(call.out) =
                        { <<"a", "a", "a", "a">>, <<"a", "a", "a", "b">>,
                          <<"a", "b", "b", "b">>, <<"b", "a", "a", "a">>,
                          <<"b", "b", "b", "a">>, <<"b", "b", "b", "b">> }

\* C15 witness: called with letters and the hyphen, length 4 and 3 repeats,
\* the generator yielded "aaa-" and did not yield "---a".
C15_Witness ==
    /\ Called("generate_repeating_patterns")
    /\ call.args = << 4, <<"a", "b", "-">>, 3 >>
    /\ <<"a", "a", "a", "-">> \in Range(call.out)
    /\ <<"-", "-", "-", "a">> \notin Range(call.out)

\* The word of a line: trimmed and lower-cased.
WordOf(line) == lower(strip(line))

\* The first line of the file whose word is w.
FirstLine(lines, w) ==
    CHOOSE i \in 1..Len(lines) :
        WordOf(lines[i]) = w /\ \A j \in 1..(i - 1) : WordOf(lines[j]) # w

\* C16: over a readable file, with duplicate lines and lines that differ in
\* case or surrounding whitespace only, generate_from_file yields each
\* qualifying word (trimmed, lower-cased, of the configured length, every
\* character in the alphabet) exactly once, in the order of its first line,
\* and yields nothing else.
C16_WordListOnce ==
    Called("generate_from_file") =>
        LET lines == call.args[1].lines
            length == call.args[2]
            alphabet == call.args[3]
            out == call.out
            Qualifies(w) == Len(w) = length /\ Range(w) \subseteq Range(alphabet)
            words == {WordOf(lines[i]) : i \in 1..Len(lines)}
        IN  /\ Range(out) = {w \in words : Qualifies(w)}
            /\ \A k, l \in 1..Len(out) :
                  k < l => FirstLine(lines, out[k]) < FirstLine(lines, out[l])

\* C16 witness: the file has the lines "Ab", " ab<TAB>", "ba"; with length 2
\* over the letters the words yielded are ab, ba.
C16_Witness ==
    /\ Called("generate_from_file")
    /\ call.args[1].lines = << <<"A", "b">>, <<" ", "a", "b", "\t">>, <<"b", "a">> >>
    /\ call.args[2] = 2
    /\ call.out = << <<"a", "b">>, <<"b", "a">> >>

(***************************************************************************)
(* Properties of the order and of the failures of the sources (checked     *)
(* under SpecPipe).                                                        *)
(***************************************************************************)
FixedOrder == <<"all", "dict", "pinyin", "repeats">>

\* The methods whose source the pipeline runs, in the fixed order.
EnabledMethods(c) ==
    LET Enabled(m) == /\ InList(m, c.methods)
                      /\ m = "dict" => c.dict_file.given
                      /\ m = "pinyin" => c.pinyin_dict_file.given
                      /\ m = "repeats" => c.min_repeats >= 2
    IN  SelectSeq(FixedOrder, Enabled)

\* Whether a source, run on its own, yields the string w: w is an item of its
\* iteration (a string of the length over the charset, or the word of a line
\* that is read) and the source does not filter it out.
Produces(src, w) ==
    /\ IF src.kind = "file"
       THEN \E i \in 1..FileReadable(src.file) : SourceItem(src, i - 1) = w
       ELSE /\ SourceSize(src) > 0
            /\ Len(w) = src.length
            /\ Range(w) \subseteq Range(src.charset)
    /\ SourceYields(src, w, {})

\* The source of the run that first produces a label.
Origin(label) ==
    CHOOSE j \in 1..Len(generators_to_run) :
        /\ Produces(generators_to_run[j], label)
        /\ \A k \in 1..(j - 1) : ~Produces(generators_to_run[k], label)

\* The strings of the configured length over the resolved charset.
Candidates == [1..cfg.length -> Range(get_charset(cfg.chars_arg))]

\* C17: the sources run in the order exhaustive, wordlist, pinyin-wordlist,
\* repeat-pattern whatever the order of --methods; a label first produced by
\* an earlier source is yielded before a label first produced by a later
\* one (the origins of the labels yielded never go back); a source is
\* started only when every earlier one is exhausted, its valid labels all
\* yielded.
C17_FixedSourceOrder ==
    gpc # "unstarted" =>
        /\ generators_to_run =
              [i \in 1..Len(EnabledMethods(cfg)) |->
                  GeneratorOf(cfg, EnabledMethods(cfg)[i])]
        /\ \A i \in 1..Len(yielded) :
              \E j \in 1..Len(generators_to_run) :
                  j <= gi /\ Produces(generators_to_run[j], yielded[i])
        /\ \A i \in 1..(Len(yielded) - 1) :
              Origin(yielded[i]) <= Origin(yielded[i + 1])
        /\ \A j \in 1..Len(generators_to_run) :
              j < gi => \A w \in Candidates :
                           /\ Produces(generators_to_run[j], w)
                           /\ is_valid_domain_base(w, AllowHyphen(cfg))
                           => w \in Range(yielded)

\* C17 witness: --methods lists pinyin before dict; the first label yielded
\* came from the dictionary file and the second from the pinyin file.
C17_Witness ==
    /\ cfg.methods = <<"pinyin", "dict">>
    /\ Len(generators_to_run) = 2
    /\ generators_to_run[1].file = cfg.dict_file
    /\ cfg.dict_file # cfg.pinyin_dict_file
    /\ Len(yielded) >= 2
    /\ Origin(yielded[1]) = 1
    /\ Origin(yielded[2]) = 2

\* Source j of the run reads a file that cannot be opened or whose read fails.
FailedSource(j) ==
    /\ generators_to_run[j].kind = "file"
    /\ generators_to_run[j].file.kind # "ok"

\* The labels yielded that only source j produces.
OnlyFrom(j) ==
    { yielded[i] : i \in { n \in 1..Len(yielded) :
        \A k \in 1..Len(generators_to_run) :
            k # j => ~Produces(generators_to_run[k], yielded[n]) } }

\* The lines read from a file before its failure: none when it cannot be opened.
LinesBeforeFailure(file) ==
    IF file.kind = "ioerror" THEN SubSeq(file.lines, 1, file.okLines) ELSE <<>>

\* A failed source does not end the run: when the pipeline is finished every
\* source has been consumed and every valid label of the other sources has
\* been yielded.
OthersStillYielded(j) ==
    gpc = "finished" =>
        /\ gi > Len(generators_to_run)
        /\ \A k \in 1..Len(generators_to_run) :
              k # j => \A w \in Candidates :
                          /\ Produces(generators_to_run[k], w)
                          /\ is_valid_domain_base(w, AllowHyphen(cfg))
                          => w \in Range(yielded)

C19_Original ==
    /\ open_socks <= 1
    /\ \A k \in 1..Len(stack) :
          stack[k].pc \in {"sleep", "call"} => stack[k].sock # "open"

\* C20: each queried label is counted in at most one of available,
\* rate-limited, errored, so their sum is at most the number queried, and
\* the success rate (queried - errored - rate-limited) / queried lies
\* between 0 and 1.
C20_Original ==
    /\ available_count + rate_limit_hits + error_hits <= count
    /\ count > 0 => /\ count - error_hits - rate_limit_hits >= 0
                    /\ count - error_hits - rate_limit_hits <= count

(***************************************************************************)
(* Properties of the loop's accounting (checked under Spec).               *)
(***************************************************************************)
\* A step that starts a query chain: the outermost call of check_li_domain.
ChainStarts == stack = <<>> /\ stack' # <<>>

\* A step that makes a retry: a call of check_li_domain from itself.
RetryStarts == stack # <<>> /\ Len(stack') > Len(stack)

\* A step that reports a result.
ResultReported == reported' # reported

\* C21: each label pulled gets one query chain and one reported result:
\* count goes up by one exactly when a chain starts, which happens only for
\* the label just pulled, not yet queried and with every earlier result
\* reported; retries leave count alone; a result is reported only for the
\* label of the chain that just ended, once; when the pipeline is exhausted
\* every label pulled has been queried and reported.
C21_OneChainPerLabel ==
    /\ [][ /\ ChainStarts <=> count' = count + 1
           /\ count' # count => count' = count + 1
           /\ ChainStarts => /\ Len(yielded) = count'
                             /\ domain_base = yielded[count']
                             /\ Len(reported) = count
           /\ RetryStarts => count' = count /\ reported' = reported
           /\ ResultReported =>
                 /\ stack = <<>> /\ stack' = <<>>
                 /\ Len(reported) = count - 1
                 /\ reported' = Append(reported,
                                       [domain |-> DomainFull(yielded[count]),
                                        status |-> result.status]) ]_vars
    /\ [](endcause = "exhausted"
            => count = Len(yielded) /\ Len(reported) = count)

\* C21 witness: the first label was reported rate limited and not queried
\* again; the second is in its second retry and count is 2.
C21_Witness ==
    /\ count = 2
    /\ Len(reported) = 1
    /\ reported[1].status = "rate_limited"
    /\ Len(stack) = 3
    /\ domain_base = yielded[2]

(***************************************************************************)
(* Property of the exhaustive method (checked under SpecPipe).             *)
(***************************************************************************)
\* What the configuration with only the exhaustive method yields:
\* Exhaustive(length, alphabet) filtered by the validator.
ExhaustiveOnly(c) ==
    LET Keep(label) == LabelValid(label, AllowHyphen(c))
    IN  SelectSeq(Exhaustive(c.length, get_charset(c.chars_arg)), Keep)

IsPrefix(s, t) == Len(s) <= Len(t) /\ s = SubSeq(t, 1, Len(s))

\* C22: with the exhaustive method enabled the other sources add no label:
\* what the pipeline yields is, at every moment, a prefix of what the
\* exhaustive method alone yields, and all of it once the pipeline is
\* finished, whatever the files hold and whatever min_repeats is.
C22_ExhaustiveSubsumes ==
    InList("all", cfg.methods) =>
        /\ IsPrefix(yielded, ExhaustiveOnly(cfg))
        /\ gpc = "finished" => yielded = ExhaustiveOnly(cfg)

\* C22 witness: all four methods are enabled with readable files; the
\* pipeline is finished, the later sources produced candidates, and the
\* labels yielded are those of the exhaustive method alone.
C22_Witness ==
    /\ Len(cfg.methods) = 4
    /\ cfg.dict_file = WordsFile
    /\ cfg.pinyin_dict_file = PinyinFile
    /\ cfg.min_repeats = 2
    /\ cfg.chars_arg = "alnum-hyphen"
    /\ cfg.length = 2
    /\ gpc = "finished"
    /\ Len(generators_to_run) = 4
    /\ processed_count > ProductSize(cfg.length, get_charset(cfg.chars_arg))
    /\ yielded = ExhaustiveOnly(cfg)
    /\ Len(yielded) < processed_count

=============================================================================
